---- MODULE Spec2Model ----
(***************************************************************************)
(* A model of the narration/timeline editor: src/App.tsx (the state and    *)
(* its handlers), src/geminiService.ts (analysis and image matching) and   *)
(* src/Timeline.tsx (seek-by-click and drop-to-assign).                    *)
(*                                                                         *)
(* Times are whole numbers of an abstract time unit.  Identifiers are      *)
(* tuples: an image id `img-${Date.now()}-${random}` is <<t, r>>, a        *)
(* segment id `seg-${index}-${Date.now()}` is <<index, t>>, and the absent *)
(* assignedImageId (undefined) is the empty tuple.                         *)
(***************************************************************************)
EXTENDS Integers, Sequences, FiniteSets, TLC

VARIABLES
    audioUrl,     \* project.audioUrl / audioFile: the uploaded file, or NoAudio
    duration,     \* project.duration
    segments,     \* project.segments
    images,       \* the gallery
    status,       \* processing.status
    message,      \* processing.message
    currentTime,  \* the currentTime state (mirror of the audio position)
    audioPos,     \* audioRef.current.currentTime, the audio element's own position
    calls,        \* the pending invocations of handleAudioUpload, in upload order
    uploads,      \* how many audio uploads there have been
    nReady,       \* how many analyses have been installed
    crashed,      \* an exception escaped a state updater
    isPlaying,    \* the isPlaying state
    paused,       \* audioRef.current.paused, the element's own flag
    events        \* the element's play/pause/ended events not yet delivered

storeVars == <<audioUrl, duration, segments, images, status, message>>
playVars == <<currentTime, audioPos>>
callVars == <<calls, uploads, nReady>>
ctrlVars == <<isPlaying, paused, events>>
vars == <<audioUrl, duration, segments, images, status, message,
          currentTime, audioPos, calls, uploads, nReady, crashed,
          isPlaying, paused, events>>

----------------------------------------------------------------------------
(* Bounds *)

MaxUploads == 2
MaxSegs == 3
MaxImages == 2
MaxTime == 2
MaxWidth == 2
MaxPlaySegs == 3
MaxEvents == 2
MaxViewSegs == 2
MaxViewImages == 2

----------------------------------------------------------------------------
(* Values *)

NoAudio == "null"
NoImage == <<>>
NoSegment == [id |-> <<>>]

\* The audio files a user may pick; each has the duration its metadata reports.
Files == {"a", "b"}
FileDuration(f) == IF f = "a" THEN 2 ELSE 1

\* The values Math.random().toString(36).substr(2, 9) may yield.
RandomParts == {1, 2}

AnalyzingMessage == "Listening and analyzing audio structure..."
ReadyMessage == "Analysis complete."
AnalysisErrorMessage == "Failed to analyze audio. Please ensure the file is supported and under the size limit."

RemoveAt(s, k) == [i \in 1..(Len(s) - 1) |-> IF i < k THEN s[i] ELSE s[i + 1]]

Min(a, b) == IF a < b THEN a ELSE b
Max(a, b) == IF a > b THEN a ELSE b

\* The instants Date.now() may report when an id is made.
Instants == {0}

----------------------------------------------------------------------------
(* geminiService.ts *)

\* What the analysis service may answer for file f: the text stands for the
\* transcription, which is the file's own.
RawItem(f, s, e) == [start_time |-> s, end_time |-> e, text |-> f]

\* Well-formed answers: n contiguous unit segments from 0.
ContiguousResult(f, n) == [i \in 1..n |-> RawItem(f, i - 1, i)]
ContiguousResults(f, maxSegs) == {ContiguousResult(f, n) : n \in 0..maxSegs}

\* Short answers: no segment, or one.
Brief(f) == ContiguousResults(f, 1)

\* Any answers: gaps, overlaps and out-of-order segments included.
Intervals(f) == {RawItem(f, s, e) : s \in 0..(MaxTime - 1), e \in 1..MaxTime}
ArbitraryResults(f, maxSegs) == UNION {[1..n -> Intervals(f)] : n \in 0..maxSegs}

\* rawData.map((item, index) => ({id: `seg-${index}-${Date.now()}`, ...})).
ToSegments(raw, t) ==
    [i \in 1..Len(raw) |->
        [id |-> <<i - 1, t>>,
         startTime |-> raw[i].start_time,
         endTime |-> raw[i].end_time,
         text |-> raw[i].text,
         assignedImageId |-> NoImage]]

matchImagesToSegments(segs, imgs) ==
    IF Len(imgs) = 0
    THEN segs
    ELSE [index \in 1..Len(segs) |->
            [segs[index] EXCEPT
                !.assignedImageId = imgs[((index - 1) % Len(imgs)) + 1]]]

----------------------------------------------------------------------------
(* App.tsx: the pure parts of the handlers *)

\* autoAssign without its test of assignedImageId: every segment is refilled.
autoAssignOverwrites(segs, updated) ==
    [i \in 1..Len(segs) |->
        [segs[i] EXCEPT
            !.assignedImageId = updated[((i - 1) % Len(updated)) + 1]]]

\* autoAssign one image late: segment i takes image (i + 1) mod L.
autoAssignOffByOne(segs, updated) ==
    [i \in 1..Len(segs) |->
        IF segs[i].assignedImageId = NoImage
        THEN [segs[i] EXCEPT !.assignedImageId = updated[(i % Len(updated)) + 1]]
        ELSE segs[i]]

\* autoAssign counting only the segments it fills.
autoAssignByBatch(segs, updated) ==
    [i \in 1..Len(segs) |->
        IF segs[i].assignedImageId = NoImage
        THEN [segs[i] EXCEPT !.assignedImageId =
                updated[(Cardinality({j \in 1..(i - 1) :
                            segs[j].assignedImageId = NoImage})
                         % Len(updated)) + 1]]
        ELSE segs[i]]

\* The segment map of handleImageUpload; `updated` is non-empty.
autoAssign(segs, updated) ==
    [i \in 1..Len(segs) |->
        IF segs[i].assignedImageId = NoImage
        THEN [segs[i] EXCEPT
                !.assignedImageId = updated[((i - 1) % Len(updated)) + 1]]
        ELSE segs[i]]

\* updated[i % 0] is undefined, and reading its id throws a TypeError.
autoAssignThrows(segs, updated) ==
    /\ Len(updated) = 0
    /\ \E i \in 1..Len(segs) : segs[i].assignedImageId = NoImage

\* assignImage that leaves a segment's image alone once it has one.
assignImageIfUnassigned(segs, segmentId, imageId) ==
    [i \in 1..Len(segs) |->
        IF segs[i].id = segmentId /\ segs[i].assignedImageId = NoImage
        THEN [segs[i] EXCEPT !.assignedImageId = imageId]
        ELSE segs[i]]

\* assignImage as a toggle: assigning the image a segment has takes it away.
assignImageToggle(segs, segmentId, imageId) ==
    [i \in 1..Len(segs) |->
        IF segs[i].id = segmentId
        THEN [segs[i] EXCEPT !.assignedImageId =
                IF segs[i].assignedImageId = imageId THEN NoImage ELSE imageId]
        ELSE segs[i]]

\* assignImage falling back on the first segment when no id matches.
assignImageOrFirst(segs, segmentId, imageId) ==
    [i \in 1..Len(segs) |->
        IF segs[i].id = segmentId
           \/ (i = 1 /\ \A j \in 1..Len(segs) : segs[j].id # segmentId)
        THEN [segs[i] EXCEPT !.assignedImageId = imageId]
        ELSE segs[i]]

\* The segment map of assignImageToSegment.
assignImage(segs, segmentId, imageId) ==
    [i \in 1..Len(segs) |->
        IF segs[i].id = segmentId
        THEN [segs[i] EXCEPT !.assignedImageId = imageId]
        ELSE segs[i]]

\* findFrom with the end of a segment taken as part of it.
RECURSIVE findFromInclusive(_, _, _)
findFromInclusive(segs, time, i) ==
    IF i > Len(segs) THEN 0
    ELSE IF time >= segs[i].startTime /\ time <= segs[i].endTime THEN i
    ELSE findFromInclusive(segs, time, i + 1)

\* Array.prototype.find with the predicate of currentSegment: the index of the
\* first match at or after i, 0 when there is none.
RECURSIVE findFrom(_, _, _)
findFrom(segs, time, i) ==
    IF i > Len(segs) THEN 0
    ELSE IF time >= segs[i].startTime /\ time < segs[i].endTime THEN i
    ELSE findFrom(segs, time, i + 1)

currentSegmentIndex == findFrom(segments, currentTime, 1)
currentSegment ==
    IF currentSegmentIndex = 0 THEN NoSegment ELSE segments[currentSegmentIndex]

\* findImage falling back on the first image of the gallery.
RECURSIVE findImageOrFirst(_, _, _)
findImageOrFirst(imgs, imageId, i) ==
    IF i > Len(imgs) THEN (IF Len(imgs) > 0 THEN 1 ELSE 0)
    ELSE IF imgs[i] = imageId THEN i
    ELSE findImageOrFirst(imgs, imageId, i + 1)

\* images.find(img => img.id === imageId): the index of the first image at or
\* after i with that id, 0 when there is none.
RECURSIVE findImage(_, _, _)
findImage(imgs, imageId, i) ==
    IF i > Len(imgs) THEN 0
    ELSE IF imgs[i] = imageId THEN i
    ELSE findImage(imgs, imageId, i + 1)

\* App.tsx lines 127-130: the place in the gallery of the image on display,
\* 0 for null or undefined.
currentDisplayImage ==
    IF currentSegment = NoSegment \/ currentSegment.assignedImageId = NoImage
    THEN 0
    ELSE findImage(images, currentSegment.assignedImageId, 1)

----------------------------------------------------------------------------
(* Initial state: App.tsx lines 9-18 *)

Init ==
    /\ audioUrl = NoAudio
    /\ duration = 0
    /\ segments = <<>>
    /\ images = <<>>
    /\ status = "idle"
    /\ message = ""
    /\ currentTime = 0
    /\ audioPos = 0
    /\ calls = <<>>
    /\ uploads = 0
    /\ nReady = 0
    /\ crashed = FALSE
    /\ isPlaying = FALSE
    /\ paused = TRUE
    /\ events = <<>>

----------------------------------------------------------------------------
(* handleAudioUpload, one action per stretch between awaits *)

\* handleAudioUpload that keeps the segment list of the previous audio.
handleAudioUploadKeeps(file, track) ==
    /\ ~crashed
    /\ uploads < MaxUploads
    /\ uploads' = uploads + 1
    /\ audioUrl' = file
    /\ status' = "analyzing"
    /\ message' = AnalyzingMessage
    /\ calls' = Append(calls, [file |-> file, pc |-> "metadata", imgs |-> images,
                               before |-> IF track THEN segments ELSE <<>>])
    /\ audioPos' = 0
    /\ paused' = TRUE
    /\ events' = <<>>
    /\ UNCHANGED <<duration, segments, images, currentTime, nReady, crashed,
                   isPlaying>>

\* Lines 27-36: the synchronous part.  The closure keeps `images` as it is now.
\* The <audio> element gets a new src: it loads anew, which puts its position
\* back to 0, pauses it without a pause event and drops its queued events.
\* `before` is history, kept when `track` asks for it: the segment list the
\* upload found.
handleAudioUpload(file, track) ==
    /\ ~crashed
    /\ uploads < MaxUploads
    /\ uploads' = uploads + 1
    /\ audioUrl' = file
    /\ segments' = <<>>
    /\ status' = "analyzing"
    /\ message' = AnalyzingMessage
    /\ calls' = Append(calls, [file |-> file, pc |-> "metadata", imgs |-> images,
                               before |-> IF track THEN segments ELSE <<>>])
    /\ audioPos' = 0
    /\ paused' = TRUE
    /\ events' = <<>>
    /\ UNCHANGED <<duration, images, currentTime, nReady, crashed, isPlaying>>

\* Lines 37-42: audio.onloadedmetadata of the probe element.
onloadedmetadata(k) ==
    /\ ~crashed
    /\ calls[k].pc = "metadata"
    /\ duration' = FileDuration(calls[k].file)
    /\ calls' = [calls EXCEPT ![k].pc = "analysis"]
    /\ UNCHANGED <<audioUrl, segments, images, status, message, playVars,
                   ctrlVars, uploads, nReady, crashed>>

\* analysisResolved where the first answer installed after an upload stays:
\* a later answer does not replace a segment list that is there.
analysisResolvedFirstWins(k, raw, t) ==
    /\ ~crashed
    /\ calls[k].pc = "analysis"
    /\ segments' = IF segments = <<>>
                   THEN matchImagesToSegments(ToSegments(raw, t), calls[k].imgs)
                   ELSE segments
    /\ status' = "ready"
    /\ message' = ReadyMessage
    /\ calls' = RemoveAt(calls, k)
    /\ nReady' = nReady + 1
    /\ UNCHANGED <<audioUrl, duration, images, playVars, ctrlVars, uploads,
                   crashed>>

\* Lines 45-51: analyzeAudioAndSegment resolved with `raw`, mapped at instant t.
analysisResolved(k, raw, t) ==
    /\ ~crashed
    /\ calls[k].pc = "analysis"
    /\ segments' = matchImagesToSegments(ToSegments(raw, t), calls[k].imgs)
    /\ status' = "ready"
    /\ message' = ReadyMessage
    /\ calls' = RemoveAt(calls, k)
    /\ nReady' = nReady + 1
    /\ UNCHANGED <<audioUrl, duration, images, playVars, ctrlVars, uploads,
                   crashed>>

\* analysisRejected dropping the segment list with the failed call.
analysisRejectedClears(k) ==
    /\ ~crashed
    /\ calls[k].pc = "analysis"
    /\ status' = "error"
    /\ message' = AnalysisErrorMessage
    /\ segments' = <<>>
    /\ calls' = RemoveAt(calls, k)
    /\ UNCHANGED <<audioUrl, duration, images, playVars, ctrlVars,
                   uploads, nReady, crashed>>

\* Lines 53-55 with geminiService.ts lines 85-88: the analysis threw.
analysisRejected(k) ==
    /\ ~crashed
    /\ calls[k].pc = "analysis"
    /\ status' = "error"
    /\ message' = IF AnalysisErrorMessage # "" THEN AnalysisErrorMessage
                  ELSE "Analysis failed."
    /\ calls' = RemoveAt(calls, k)
    /\ UNCHANGED <<audioUrl, duration, segments, images, playVars, ctrlVars,
                   uploads, nReady, crashed>>

----------------------------------------------------------------------------
(* handleImageUpload and assignImageToSegment *)

\* The ids of n files mapped in order: each reads Date.now() and Math.random().
NewImageIds == {<<t, r>> : t \in Instants, r \in RandomParts}
NewIdLists(n) == [1..n -> NewImageIds]

\* handleImageUpload that replaces the gallery by the new images.
handleImageUploadReplaces(newImages) ==
    /\ ~crashed
    /\ LET updated == newImages IN
        IF Len(segments) > 0 /\ autoAssignThrows(segments, updated)
        THEN /\ crashed' = TRUE
             /\ UNCHANGED <<segments, images>>
        ELSE /\ images' = updated
             /\ segments' = IF Len(segments) > 0
                            THEN autoAssign(segments, updated)
                            ELSE segments
             /\ UNCHANGED crashed
    /\ UNCHANGED <<audioUrl, duration, status, message, playVars, ctrlVars,
                 callVars>>

\* Lines 58-82 with the new images' ids `newImages`.
handleImageUpload(newImages) ==
    /\ ~crashed
    /\ LET updated == images \o newImages IN
        IF Len(segments) > 0 /\ autoAssignThrows(segments, updated)
        THEN /\ crashed' = TRUE
             /\ UNCHANGED <<segments, images>>
        ELSE /\ images' = updated
             /\ segments' = IF Len(segments) > 0
                            THEN autoAssign(segments, updated)
                            ELSE segments
             /\ UNCHANGED crashed
    /\ UNCHANGED <<audioUrl, duration, status, message, playVars, ctrlVars,
                 callVars>>

\* Lines 84-91.
assignImageToSegment(segmentId, imageId) ==
    /\ ~crashed
    /\ segments' = assignImage(segments, segmentId, imageId)
    /\ UNCHANGED <<audioUrl, duration, images, status, message, playVars,
                   ctrlVars, callVars, crashed>>

\* Timeline.tsx lines 28-34: an image id dropped on a rendered segment.
handleDrop(segmentId, imageId) ==
    /\ imageId # NoImage
    /\ assignImageToSegment(segmentId, imageId)

SegmentIds == {segments[i].id : i \in 1..Len(segments)}
ImageIds == {images[i] : i \in 1..Len(images)}

----------------------------------------------------------------------------
(* Playback: the <audio> element and the timeline *)

\* togglePlay without its test of audioRef.current.
togglePlayUnguarded ==
    /\ ~crashed
    /\ Len(events) < MaxEvents
    /\ isPlaying' = ~isPlaying
    /\ IF isPlaying
       THEN /\ paused' = TRUE
            /\ events' = IF paused THEN events ELSE Append(events, "pause")
            /\ UNCHANGED audioPos
       ELSE /\ paused' = FALSE
            /\ events' = IF paused THEN Append(events, "play") ELSE events
            /\ audioPos' = IF audioUrl # NoAudio /\ audioPos = FileDuration(audioUrl)
                           THEN 0 ELSE audioPos
    /\ UNCHANGED <<storeVars, currentTime, callVars, crashed>>

\* App.tsx lines 93-101.  audioRef.current is the <audio> element, rendered
\* when there is an audioUrl.  pause() and play() change the element's paused
\* flag at once and queue its pause/play event; play() on an element that
\* has ended starts again from 0.
togglePlay ==
    /\ ~crashed
    /\ Len(events) < MaxEvents
    /\ IF audioUrl = NoAudio
       THEN UNCHANGED <<audioPos, ctrlVars>>
       ELSE /\ isPlaying' = ~isPlaying
            /\ IF isPlaying
               THEN /\ paused' = TRUE
                    /\ events' = IF paused THEN events ELSE Append(events, "pause")
                    /\ UNCHANGED audioPos
               ELSE /\ paused' = FALSE
                    /\ events' = IF paused THEN Append(events, "play") ELSE events
                    /\ audioPos' = IF audioPos = FileDuration(audioUrl)
                                   THEN 0 ELSE audioPos
    /\ UNCHANGED <<storeVars, currentTime, callVars, crashed>>

\* App.tsx line 306: onPlay.
onPlay ==
    /\ ~crashed
    /\ events # <<>> /\ Head(events) = "play"
    /\ isPlaying' = TRUE
    /\ events' = Tail(events)
    /\ UNCHANGED <<storeVars, playVars, callVars, crashed, paused>>

\* App.tsx line 307: onPause.
onPause ==
    /\ ~crashed
    /\ events # <<>> /\ Head(events) = "pause"
    /\ isPlaying' = FALSE
    /\ events' = Tail(events)
    /\ UNCHANGED <<storeVars, playVars, callVars, crashed, paused>>

\* App.tsx lines 116-118, bound to onEnded at line 305.
handleEnded ==
    /\ ~crashed
    /\ events # <<>> /\ Head(events) = "ended"
    /\ isPlaying' = FALSE
    /\ events' = Tail(events)
    /\ UNCHANGED <<storeVars, playVars, callVars, crashed, paused>>

\* The element plays on: its position moves forward within its source.  At
\* the end of the source it pauses itself and queues pause, then ended.
audioPlays ==
    /\ ~crashed
    /\ audioUrl # NoAudio
    /\ ~paused
    /\ audioPos < FileDuration(audioUrl)
    /\ audioPos' = audioPos + 1
    /\ IF audioPos' = FileDuration(audioUrl)
       THEN /\ Len(events) + 2 <= MaxEvents
            /\ paused' = TRUE
            /\ events' = events \o <<"pause", "ended">>
       ELSE UNCHANGED <<paused, events>>
    /\ UNCHANGED <<storeVars, currentTime, callVars, crashed, isPlaying>>

\* App.tsx lines 110-114.
handleTimeUpdate ==
    /\ ~crashed
    /\ audioUrl # NoAudio
    /\ currentTime' = audioPos
    /\ UNCHANGED <<storeVars, audioPos, callVars, crashed, ctrlVars>>

\* App.tsx lines 103-108.  The element keeps its position within its source;
\* the state takes the time as given.
handleSeek(time) ==
    /\ ~crashed
    /\ IF audioUrl # NoAudio
       THEN /\ audioPos' = Max(0, Min(time, FileDuration(audioUrl)))
            /\ currentTime' = time
       ELSE UNCHANGED playVars
    /\ UNCHANGED <<storeVars, callVars, crashed, ctrlVars>>

\* seekTime without the clamp of the percentage.
seekTimeUnclamped(x, w, d) == (x * d) \div w

\* Timeline.tsx lines 44-46: Math.max(0, Math.min(1, x / rect.width)) * duration
\* for a click at offset x from the left edge of the timeline's container,
\* the container being w wide.
seekTime(x, w, d) == (Max(0, Min(w, x)) * d) \div w

\* Timeline.tsx lines 41-47: a click at offset x of a container w wide.  The
\* offsets taken are those whose seek time is a whole number of time units.
ClickOffsets(w) == {x \in (0 - 1)..(w + 1) : (Max(0, Min(w, x)) * duration) % w = 0}
percentageTimesDuration(x, w) == seekTime(x, w, duration)

handleTimelineClick(x, w) ==
    /\ duration # 0
    /\ handleSeek(percentageTimesDuration(x, w))

----------------------------------------------------------------------------
(* The editor: uploads, analyses, gallery and drag-and-drop *)

Editor(results(_), maxImages, track) ==
    \/ \E file \in Files : handleAudioUpload(file, track)
    \/ \E k \in 1..Len(calls) : onloadedmetadata(k)
    \/ \E k \in 1..Len(calls), t \in Instants :
        \E raw \in results(calls[k].file) : analysisResolved(k, raw, t)
    \/ \E k \in 1..Len(calls) : analysisRejected(k)
    \/ \E n \in 0..(maxImages - Len(images)) :
        \E ids \in NewIdLists(n) : handleImageUpload(ids)
    \/ \E segmentId \in SegmentIds, imageId \in ImageIds :
        handleDrop(segmentId, imageId)

WellFormed(f) == ContiguousResults(f, MaxSegs)

Next == Editor(WellFormed, MaxImages, FALSE)

Spec == Init /\ [][Next]_vars

----------------------------------------------------------------------------
(* The editor with assignImageToSegment called with any ids at all *)

AllSegmentIds == {<<index, t>> : index \in 0..MaxSegs, t \in Instants}

NextApi ==
    \/ Editor(WellFormed, 1, FALSE)
    \/ \E segmentId \in AllSegmentIds, imageId \in NewImageIds :
        assignImageToSegment(segmentId, imageId)

SpecApi == Init /\ [][NextApi]_vars

----------------------------------------------------------------------------
(* The editor with playback, for any answer of the analysis service *)

Playback ==
    \/ togglePlay
    \/ onPlay
    \/ onPause
    \/ handleEnded
    \/ audioPlays
    \/ handleTimeUpdate
    \/ \E w \in 1..MaxWidth : \E x \in ClickOffsets(w) : handleTimelineClick(x, w)

NextPlay ==
    \/ Editor(Brief, 1, FALSE)
    \/ Playback

SpecPlay == Init /\ [][NextPlay]_vars

----------------------------------------------------------------------------
(* Overlapping uploads, with the history of what each upload found *)

NextRace == Editor(Brief, 1, TRUE)

SpecRace == Init /\ [][NextRace]_vars

\* Overlapping uploads where every metadata load that can succeed does, and
\* every dispatched analysis call resolves or rejects in the end.
SpecLive ==
    /\ Init
    /\ [][NextRace]_vars
    /\ WF_vars(\E k \in 1..Len(calls) : onloadedmetadata(k))
    /\ WF_vars(\E k \in 1..Len(calls) :
                \/ analysisRejected(k)
                \/ \E raw \in Brief(calls[k].file), t \in Instants :
                        analysisResolved(k, raw, t))

----------------------------------------------------------------------------
(* The editor with clicks on the timeline at the pixel where a time is drawn *)

\* Timeline.tsx line 52.
PIXELS_PER_SECOND == 50

\* Timeline.tsx line 53: the minimum width of the track.
MinimumWidth == 800

\* The seconds in one time unit of the model: file "a" lasts 8 s, "b" 4 s.
SecondsPerUnit == 4

\* Timeline.tsx line 53.
totalWidth == Max(duration * SecondsPerUnit * PIXELS_PER_SECOND, MinimumWidth)

\* Timeline.tsx line 81, and line 98 for the left edge of a segment: the
\* pixel of the track at which a time is drawn.
pixelOf(time) == time * SecondsPerUnit * PIXELS_PER_SECOND

\* A click on the track at the pixel of time t, the timeline's container
\* being exactly as wide as the track (nothing to scroll), so that offsets in
\* the container are offsets in the track.
clickAtTime(t) ==
    /\ pixelOf(t) \in ClickOffsets(totalWidth)
    /\ handleTimelineClick(pixelOf(t), totalWidth)

NextTrack ==
    \/ Editor(Brief, 1, FALSE)
    \/ \E t \in 0..duration : clickAtTime(t)

SpecTrack == Init /\ [][NextTrack]_vars

----------------------------------------------------------------------------
(* Playback over any installed answer of the analysis service: the state
   after one upload whose analysis answered `raw`, and sought *)

InitActive ==
    /\ \E file \in Files :
        /\ audioUrl = file
        /\ duration = FileDuration(file)
        /\ \E raw \in ArbitraryResults(file, MaxPlaySegs), t \in Instants :
            segments = ToSegments(raw, t)
    /\ images = <<>>
    /\ status = "ready"
    /\ message = ReadyMessage
    /\ currentTime = 0
    /\ audioPos = 0
    /\ calls = <<>>
    /\ uploads = 1
    /\ nReady = 1
    /\ crashed = FALSE
    /\ isPlaying = FALSE
    /\ paused = TRUE
    /\ events = <<>>

\* The handlers that move currentTime.
Seeking ==
    \/ handleTimeUpdate
    \/ \E w \in 1..MaxWidth : \E x \in ClickOffsets(w) : handleTimelineClick(x, w)

SpecActive == InitActive /\ [][Seeking]_vars

----------------------------------------------------------------------------
(* The preview over any assignment of image ids and any gallery: the state
   after one upload, its analysis, image uploads and calls of
   assignImageToSegment, and sought *)

\* What assignedImageId may hold: nothing, or any id handed to assignImage.
AssignableIds == {NoImage} \cup NewImageIds

Galleries == UNION {[1..m -> NewImageIds] : m \in 0..MaxViewImages}

InitView ==
    /\ \E file \in Files :
        /\ audioUrl = file
        /\ duration = FileDuration(file)
        /\ \E raw \in ContiguousResults(file, MaxViewSegs), t \in Instants :
            \E ids \in [1..Len(raw) -> AssignableIds] :
                segments = [i \in 1..Len(raw) |->
                    [ToSegments(raw, t)[i] EXCEPT !.assignedImageId = ids[i]]]
    /\ images \in Galleries
    /\ status = "ready"
    /\ message = ReadyMessage
    /\ currentTime = 0
    /\ audioPos = 0
    /\ calls = <<>>
    /\ uploads = 1
    /\ nReady = 1
    /\ crashed = FALSE
    /\ isPlaying = FALSE
    /\ paused = TRUE
    /\ events = <<>>

SpecView == InitView /\ [][Seeking]_vars

----------------------------------------------------------------------------
(* Steps, as the variables show them *)

ImagesAdded == images' # images
UploadStep == uploads' = uploads + 1
ResolveStep == nReady' = nReady + 1
ResolveOf(k) ==
    /\ calls[k].pc = "analysis"
    /\ calls' = RemoveAt(calls, k)
    /\ nReady' = nReady + 1
RejectOf(k) ==
    /\ calls[k].pc = "analysis"
    /\ calls' = RemoveAt(calls, k)
    /\ nReady' = nReady

Assigned(seg) == seg.assignedImageId # NoImage
RoundRobin(imgs, i) == imgs[((i - 1) % Len(imgs)) + 1]
Contains(seg, time) == seg.startTime <= time /\ time < seg.endTime
Matching == {i \in 1..Len(segments) : Contains(segments[i], currentTime)}
SortedNonOverlapping ==
    \A i \in 1..(Len(segments) - 1) :
        /\ segments[i].startTime <= segments[i + 1].startTime
        /\ segments[i].endTime <= segments[i + 1].startTime

\* How many segments before the i-th had no image.
BatchIndex(segs, i) == Cardinality({j \in 1..(i - 1) : ~Assigned(segs[j])})

----------------------------------------------------------------------------
(* Claims *)

\* C1: an image upload never changes a segment that already has an image: the
\* list keeps its length and every assigned segment is the same after as before.
C1_AutoFillKeepsAssigned ==
    [][ImagesAdded =>
        /\ Len(segments') = Len(segments)
        /\ \A i \in 1..Len(segments) :
            Assigned(segments[i]) => segments'[i] = segments[i]]_vars

\* C1 witness: two images in the gallery and every segment still holds the
\* first one, where a refill would have given the second segment the second.
C1_Witness ==
    /\ Len(images) = 2 /\ images[1] # images[2]
    /\ Len(segments) >= 2
    /\ \A i \in 1..Len(segments) : segments[i].assignedImageId = images[1]

\* C2 (as claimed): when an analysis is installed, segment i holds gallery image
\* i mod M of the gallery as it is at that moment, and none if it is empty.
C2_MatchesGalleryAtCompletion ==
    [][ResolveStep =>
        \A i \in 1..Len(segments') :
            segments'[i].assignedImageId =
                IF Len(images) > 0 THEN RoundRobin(images, i) ELSE NoImage]_vars

\* C3 (as claimed): a rejected analysis sets status error with a message and
\* leaves the segment list as it was before the call: empty after a first
\* upload, and otherwise the prior segments, which the upload found, are there.
C3_RejectKeepsPriorSegments ==
    [][\A k \in 1..Len(calls) : RejectOf(k) =>
        /\ status' = "error"
        /\ message' # ""
        /\ (uploads = 1 => segments' = <<>>)
        /\ (calls[k].before # <<>> => segments' = calls[k].before)]_vars

\* C3 (amended): a rejected analysis sets status error with a message and
\* leaves the segment list as it was just before the rejection, which is empty
\* after a first upload.
C3_RejectKeepsSegments ==
    [][\A k \in 1..Len(calls) : RejectOf(k) =>
        /\ status' = "error"
        /\ message' # ""
        /\ segments' = segments
        /\ (uploads = 1 => segments' = <<>>)]_vars

\* C3 witness: status error while the segments of an overlapping analysis,
\* installed before the rejection, are there.
C3_Witness == status = "error" /\ message # "" /\ segments # <<>>

\* C4: the active segment is the first segment in list order that contains
\* currentTime, there is none when no segment contains it, and a sorted list
\* without overlaps has at most one such segment.
C4_ActiveSegmentIsFirstMatch ==
    /\ (Matching = {} => currentSegment = NoSegment)
    /\ (Matching # {} =>
            /\ currentSegmentIndex \in Matching
            /\ \A j \in Matching : currentSegmentIndex <= j
            /\ currentSegment = segments[currentSegmentIndex])
    /\ (SortedNonOverlapping => Cardinality(Matching) <= 1)

\* C4 witness: two overlapping segments contain currentTime, the second
\* starting before the first, and the first in list order is the active one.
C4_Witness ==
    /\ Cardinality(Matching) = 2
    /\ segments[2].startTime < segments[1].startTime
    /\ currentSegment = segments[1]

\* C5: an image upload gives every segment that had no image the image at
\* index i mod L of the updated gallery, i being its place in the segment list.
C5_UploadFillsRoundRobin ==
    [][ImagesAdded /\ Len(segments) > 0 =>
        \A i \in 1..Len(segments) :
            ~Assigned(segments[i]) =>
                segments'[i] = [segments[i] EXCEPT
                    !.assignedImageId = RoundRobin(images', i)]]_vars

\* C5 witness: three segments and two distinct images, assigned 0, 1, 0.
C5_Witness ==
    /\ Len(segments) = 3 /\ Len(images) = 2 /\ images[1] # images[2]
    /\ segments[1].assignedImageId = images[1]
    /\ segments[2].assignedImageId = images[2]
    /\ segments[3].assignedImageId = images[1]

C7_StatusTransitions ==
    [][/\ (status' = "analyzing" /\ status # "analyzing" => UploadStep)
       /\ (status' \in {"ready", "error"} /\ status' # status => status = "analyzing")
       /\ (status = "error" /\ status' # "error" =>
                UploadStep /\ status' = "analyzing")]_vars

\* C8: an upload leaves the pending analyses pending, and whichever analysis
\* resolves, the latest upload's or an earlier one's, the segment list becomes
\* the segments of its answer, matched with the images its upload captured.
C8_LastWriteWins ==
    [][/\ UploadStep => SubSeq(calls', 1, Len(calls)) = calls
       /\ \A k \in 1..Len(calls) : ResolveOf(k) =>
            \E raw \in Brief(calls[k].file), t \in Instants :
                segments' = matchImagesToSegments(ToSegments(raw, t), calls[k].imgs)]_vars

\* C8 witness: two uploads of different files, both analyses installed, and
\* the segments are those of the earlier upload's file: it resolved last.
C8_Witness ==
    /\ uploads = 2 /\ nReady = 2 /\ calls = <<>>
    /\ segments # <<>>
    /\ segments[1].text # audioUrl

\* C9 (as claimed): the playback position lies between 0 and the duration.
C9_PositionWithinDuration == 0 <= currentTime /\ currentTime <= duration

\* C10: assignImage with a segment id that matches no segment gives back the
\* segment list it was given, the empty list included.
C10_UnknownSegmentIsNoOp ==
    \A segmentId \in AllSegmentIds \ SegmentIds, imageId \in NewImageIds :
        assignImage(segments, segmentId, imageId) = segments

\* C10 witness: segments without an image are there, none of them has the id
\* <<MaxSegs, 0>>, and the call with it has left them without one.
C10_Witness ==
    /\ Len(segments) >= 2
    /\ \A i \in 1..Len(segments) : ~Assigned(segments[i])
    /\ <<MaxSegs, 0>> \notin SegmentIds
    /\ Len(images) > 0

\* C11: assignImageToSegment with the id of a segment gives that segment the
\* image id, whatever image it had and whether or not the gallery has such an
\* image, and changes nothing else: the list keeps its length and order, the
\* segment its other fields, every other segment, the gallery, the duration
\* and currentTime stay as they are.
C11_AssignSetsOneSegment ==
    [][/\ \A segmentId \in SegmentIds', imageId \in NewImageIds :
            LET assigned == assignImage(segments', segmentId, imageId) IN
            /\ Len(assigned) = Len(segments')
            /\ Cardinality({i \in 1..Len(segments') :
                                segments'[i].id = segmentId}) = 1
            /\ \A i \in 1..Len(segments') :
                IF segments'[i].id = segmentId
                THEN /\ assigned[i].assignedImageId = imageId
                     /\ assigned[i] =
                            [segments'[i] EXCEPT !.assignedImageId = imageId]
                ELSE assigned[i] = segments'[i]
       /\ \A segmentId \in SegmentIds, imageId \in NewImageIds :
            assignImageToSegment(segmentId, imageId) =>
                /\ segments' = assignImage(segments, segmentId, imageId)
                /\ images' = images
                /\ duration' = duration
                /\ currentTime' = currentTime]_vars

\* C11 witness: a segment carries an image id the gallery does not have,
\* next to a gallery that is not empty: a later assignment replaced the
\* image the analysis gave it.
C11_Witness ==
    /\ Len(images) > 0
    /\ \E i \in 1..Len(segments) :
        /\ Assigned(segments[i])
        /\ segments[i].assignedImageId \notin ImageIds

\* C12: assignImage twice with the same arguments gives the list that
\* assigning once gives, for every segment id and image id.
C12_AssignIsIdempotent ==
    \A segmentId \in AllSegmentIds, imageId \in NewImageIds :
        assignImage(assignImage(segments, segmentId, imageId), segmentId, imageId)
            = assignImage(segments, segmentId, imageId)

\* C12 witness: two segments hold different images, each by an assignment,
\* so assigning again meets a segment that already has the image.
C12_Witness ==
    /\ Len(segments) >= 2
    /\ segments[1].assignedImageId = <<0, 2>>
    /\ segments[2].assignedImageId = <<0, 1>>

\* C13 (as claimed): a seek to a time t between 0 and the duration leaves
\* both the audio position and currentTime at t.
C13_SeekRoundTrip ==
    [][\A t \in 0..duration :
        handleSeek(t) => (audioPos' = t /\ currentTime' = t)]_vars

\* C14: a timeline click at offset x of a width w seeks to the time t with
\* t = clamp(x / w, 0, 1) * duration, which lies between 0 and the duration
\* also for offsets left of the element or right of it; half way along a
\* track of 40 s that is 20 s; and with a duration of 0 a click seeks nowhere.
C14_ClickSeeksToFraction ==
    [][/\ \A w \in 1..MaxWidth : \A x \in ClickOffsets(w) :
            /\ seekTime(x, w, duration) * w = Max(0, Min(w, x)) * duration
            /\ 0 <= seekTime(x, w, duration)
            /\ seekTime(x, w, duration) <= duration
            /\ handleTimelineClick(x, w) =>
                    /\ duration # 0
                    /\ currentTime' = seekTime(x, w, duration)
       /\ seekTime(400, 800, 40) = 20
       /\ (duration = 0 /\ playVars' # playVars) =>
            ~ \E w \in 1..MaxWidth : \E x \in ClickOffsets(w) :
                handleTimelineClick(x, w)]_vars

\* C14 witness: a click right of the element has sought to the end of a
\* track of MaxTime units: currentTime and the position are the duration.
C14_Witness ==
    /\ duration = MaxTime
    /\ currentTime = duration
    /\ audioPos = duration
    /\ paused /\ ~isPlaying /\ events = <<>>

\* C15 (as claimed): no step throws, an image upload that finds no segments
\* or leaves the gallery empty changes no segment, and an analysis installed
\* with no segments or for an empty captured gallery assigns no image.
C15_DegenerateAutoFillIsNoOp ==
    [][/\ ~crashed'
       /\ (~UploadStep /\ ~ResolveStep /\ (segments = <<>> \/ images' = <<>>)) =>
            segments' = segments
       /\ \A k \in 1..Len(calls) :
            (ResolveOf(k) /\ calls[k].imgs = <<>>) =>
                \A i \in 1..Len(segments') : ~Assigned(segments'[i])]_vars

\* C16 (as claimed): every step leaves the gallery as it was or appends new
\* images to it, one per file in order, and the ids of the gallery's images
\* are pairwise distinct.
C16_GalleryAppendOnlyUnique ==
    [][/\ Len(images') >= Len(images)
       /\ SubSeq(images', 1, Len(images)) = images
       /\ \E ids \in NewIdLists(Len(images') - Len(images)) :
            images' = images \o ids
       /\ \A i, j \in 1..Len(images') : i # j => images'[i] # images'[j]]_vars

\* C17: an audio upload empties the segment list and leaves the gallery as it
\* is; an empty list becomes non-empty only when an analysis installs its
\* whole answer; and whenever the status is analyzing the list is empty.
C17_AnalyzingMeansNoSegments ==
    [][/\ UploadStep => (segments' = <<>> /\ images' = images)
       /\ (segments = <<>> /\ segments' # <<>>) =>
            \E k \in 1..Len(calls) :
                /\ ResolveOf(k)
                /\ \E raw \in WellFormed(calls[k].file), t \in Instants :
                    segments' = matchImagesToSegments(ToSegments(raw, t),
                                                      calls[k].imgs)
       /\ status = "analyzing" => segments = <<>>
       /\ status' = "analyzing" => segments' = <<>>]_vars

\* C17 witness: a second upload after the first one's analysis was installed
\* and the gallery filled: the status is analyzing with no segments left.
C17_Witness ==
    /\ status = "analyzing"
    /\ uploads = 2 /\ nReady = 1
    /\ images # <<>>
    /\ segments = <<>>

\* C18 (as claimed): a call passes from its metadata load to the analysis
\* with the duration set, and only a call whose analysis was dispatched
\* settles; an upload is followed in the end by ready or error; and while the
\* metadata of the latest upload has not loaded the status stays analyzing
\* unless there is another upload.
C18_AnalysisAfterMetadata ==
    /\ [][/\ \A k \in 1..Len(calls) :
                (Len(calls') = Len(calls) /\ calls[k].pc = "metadata"
                    /\ calls'[k].pc = "analysis") =>
                        duration' = FileDuration(calls[k].file)
          /\ Len(calls') < Len(calls) =>
                \E k \in 1..Len(calls) :
                    calls[k].pc = "analysis" /\ calls' = RemoveAt(calls, k)
          /\ (/\ status = "analyzing"
              /\ calls # <<>> /\ calls[Len(calls)].pc = "metadata"
              /\ ~UploadStep) => status' = "analyzing"]_vars
    /\ (status = "analyzing") ~> (status \in {"ready", "error"})

\* C19: isPlaying becomes true only by togglePlay or the play event, and
\* false only by togglePlay, the pause event or the ended event; after the
\* ended event it is false whatever it was; togglePlay with no audio loaded
\* changes nothing; and isPlaying is never true while no audio is loaded.
C19_PlayingOnlyWithAudio ==
    [][/\ (~isPlaying /\ isPlaying') => (togglePlay \/ onPlay)
       /\ (isPlaying /\ ~isPlaying') => (togglePlay \/ onPause \/ handleEnded)
       /\ (events # <<>> /\ Head(events) = "ended" /\ events' = Tail(events)) =>
            ~isPlaying'
       /\ (audioUrl = NoAudio /\ audioUrl' = NoAudio) => UNCHANGED ctrlVars
       /\ isPlaying => audioUrl # NoAudio
       /\ isPlaying' => audioUrl' # NoAudio]_vars

\* C19 witness: the audio was started, has played to its end, and the pause
\* and ended events of the element have been delivered: nothing is queued,
\* isPlaying is false and the position is at the end, with no time update yet.
C19_Witness ==
    /\ audioUrl # NoAudio
    /\ audioPos = FileDuration(audioUrl)
    /\ currentTime = 0
    /\ paused /\ ~isPlaying /\ events = <<>>

\* C20: the image on display is decided by the segments, the gallery and
\* currentTime alone: there is none when no segment is active, when the
\* active segment has no image id, or when the gallery has no image with its
\* id; otherwise it is the gallery image with the active segment's image id
\* (the first such image).
C20_CurrentImage ==
    /\ Matching = {} => currentDisplayImage = 0
    /\ Matching # {} =>
        LET active == segments[CHOOSE i \in Matching : \A j \in Matching : i <= j]
            imageId == active.assignedImageId
        IN  /\ ~Assigned(active) => currentDisplayImage = 0
            /\ imageId \notin ImageIds => currentDisplayImage = 0
            /\ (Assigned(active) /\ imageId \in ImageIds) =>
                /\ currentDisplayImage \in 1..Len(images)
                /\ images[currentDisplayImage] = imageId
                /\ \A j \in 1..(currentDisplayImage - 1) : images[j] # imageId

\* C20 witness: at a time past 0 the active segment's image is the second
\* image of the gallery, while the first segment has no image.
C20_Witness ==
    /\ currentTime > 0
    /\ currentDisplayImage = 2
    /\ ~Assigned(segments[1])

\* C21 (as claimed): a click at the pixel where a time t between 0 and the
\* duration is drawn seeks to t.
C21_ClickAtPixelSeeksToTime ==
    [][\A t \in 0..duration : clickAtTime(t) => currentTime' = t]_vars

\* C22: with audio uploads, analyses, image uploads and drops of gallery
\* images, every segment has no image id or the id of an image of the
\* gallery, also when the analysis matched against the gallery captured at
\* upload time.
C22_NoDanglingImage ==
    \A i \in 1..Len(segments) :
        Assigned(segments[i]) => segments[i].assignedImageId \in ImageIds

\* C22 witness: an analysis was installed and the gallery holds two different
\* images, of which every one of at least two segments has the first: the
\* ids come from a gallery of one image, as an upload had captured it.
C22_Witness ==
    /\ nReady >= 1 /\ calls = <<>>
    /\ Len(images) = 2 /\ images[1] # images[2]
    /\ Len(segments) >= 2
    /\ \A i \in 1..Len(segments) : segments[i].assignedImageId = images[1]

====
